---------------------------- MODULE Spec2Model ----------------------------
(***************************************************************************)
(* Model of the urban-cover lambda (src/lambda): lambda_handler with its   *)
(* neighbor reconciliation loop, the raster window arithmetic of           *)
(* GdalCommonUtils and the combine-and-count step.                         *)
(*                                                                         *)
(* Ground coordinates are integers.  A geometry is the set of points of    *)
(* the half-unit lattice it contains: the pair <<u, v>> stands for the     *)
(* ground point (u/2, v/2), so that closed rectangles sharing only an      *)
(* edge or a corner still have a point in common, as in OGR.               *)
(***************************************************************************)
EXTENDS Integers, Sequences, FiniteSets, TLC

\* ------------------------------------------------------------- bounds

\* Largest raster width and height of the window-arithmetic datasets.
MaxRasterSize == 3
\* Largest absolute pixel pitch of the window-arithmetic datasets.
MaxPitch == 2
\* Pixels along one side of a cloud-mask tile of the mosaic.
TilePixels == 3
\* Pixels by which two adjacent tiles of the mosaic overlap.
OverlapPixels == 1

\* ------------------------------------------------------- Python numbers

Abs(x) == IF x < 0 THEN -x ELSE x

Max2(a, b) == IF a >= b THEN a ELSE b

Min2(a, b) == IF a <= b THEN a ELSE b

\* round(n / d) for d > 0, as Python 3 rounds a float: to the nearest
\* integer, a tie to the even one.
RoundDiv(n, d) ==
    LET q == n \div d
        r == n - q * d
    IN  IF 2 * r < d THEN q
        ELSE IF 2 * r > d THEN q + 1
        ELSE IF q % 2 = 0 THEN q ELSE q + 1

\* int(n / d) for d > 0: truncation toward zero.
TruncDiv(n, d) == IF n >= 0 THEN n \div d ELSE -((-n) \div d)

\* --------------------------------------------------- GdalCommonUtils

\* A dataset is [geo_transform |-> <<c, a, b, f, d, e>>, RasterXSize,
\* RasterYSize, codes]; codes names the content of its single band.
GT(dataset, i) == dataset.geo_transform[i + 1]

\* get_envelope with the corners taken in raster order, not normalised.
get_envelope_unordered(dataset) ==
    LET c == GT(dataset, 0)
        a == GT(dataset, 1)
        b == GT(dataset, 2)
        f == GT(dataset, 3)
        d == GT(dataset, 4)
        e == GT(dataset, 5)
        col == dataset.RasterXSize
        row == dataset.RasterYSize
    IN  <<c, e * row + f, a * col + b * row + c, f>>

get_envelope(dataset) ==
    LET c == GT(dataset, 0)
        a == GT(dataset, 1)
        b == GT(dataset, 2)
        f == GT(dataset, 3)
        d == GT(dataset, 4)
        e == GT(dataset, 5)
        t == 0
        env_a == <<a * (0 + t) + b * (0 + t) + c, d * (0 + t) + e * (0 + t) + f>>
        col == dataset.RasterXSize
        row == dataset.RasterYSize
        env_b == <<a * (col + t) + b * (row + t) + c, d * (col + t) + e * (row + t) + f>>
    IN  <<Min2(env_a[1], env_b[1]), Min2(env_a[2], env_b[2]),
          Max2(env_a[1], env_b[1]), Max2(env_a[2], env_b[2])>>

\* get_reading_window: <<left, top, right, bottom>>.  res_x is
\* abs(data_ul_x - data_lr_x) / w, so (x - data_ul_x) / res_x is the exact
\* quotient (x - data_ul_x) * w / abs(data_ul_x - data_lr_x).
get_reading_window(dataset, bbox) ==
    LET envelope == get_envelope(dataset)
        w == dataset.RasterXSize
        h == dataset.RasterYSize
        data_ul_x == envelope[1]
        data_lr_y == envelope[2]
        data_lr_x == envelope[3]
        data_ul_y == envelope[4]
        span_x == Abs(data_ul_x - data_lr_x)
        span_y == Abs(data_ul_y - data_lr_y)
        ul_x == bbox[1]
        lr_y == bbox[2]
        lr_x == bbox[3]
        ul_y == bbox[4]
        top == RoundDiv((data_ul_y - ul_y) * h, span_y)
        left == RoundDiv((ul_x - data_ul_x) * w, span_x)
        bottom == RoundDiv((data_ul_y - lr_y) * h, span_y)
        right == RoundDiv((lr_x - data_ul_x) * w, span_x)
    IN  <<left, top, right, bottom>>


\* ------------------------------------------------------------ geometry

NoGeometry == {}

\* OgrCommonUtils.create_geometry_from_bbox: the closed rectangle.
create_geometry_from_bbox(x_min, y_min, x_max, y_max) ==
    (2 * x_min .. 2 * x_max) \X (2 * y_min .. 2 * y_max)

\* Lattice coordinates that the closure of the cell at coordinate u adds: an
\* odd u is an open interval between two ground half-points, an even u a point.
Adj(u) == IF u % 2 = 0 THEN {u} ELSE {u - 1, u, u + 1}

Closure(S) == UNION {Adj(p[1]) \X Adj(p[2]) : p \in S}

\* ogr.Geometry.Intersects: the closed sets share a point.
Intersects(A, B) == A \cap B /= {}

\* ogr.Geometry.Intersection.
Intersection(A, B) == A \cap B

\* Difference with the operands exchanged.
DifferenceSwapped(A, B) == Closure(B \ A)

\* ogr.Geometry.Difference: the closed geometry covering A outside B.
Difference(A, B) == Closure(A \ B)

\* ogr.Geometry.GetEnvelope: <<minX, maxX, minY, maxY>>; an empty geometry
\* gives the zero envelope.
GetEnvelope(A) ==
    IF A = {} THEN <<0, 0, 0, 0>>
    ELSE LET us == {p[1] : p \in A}
             vs == {p[2] : p \in A}
             lo(S) == CHOOSE x \in S : \A y \in S : x <= y
             hi(S) == CHOOSE x \in S : \A y \in S : x >= y
         IN  <<lo(us) \div 2, hi(us) \div 2, lo(vs) \div 2, hi(vs) \div 2>>

\* ------------------------------------------------------ numpy arrays

\* An array is [shape |-> <<rows, cols>>, at |-> [Idx(rows, cols) -> value]].
Idx(rows, cols) == (0 .. rows - 1) \X (0 .. cols - 1)

Array(rows, cols, F(_, _)) ==
    [shape |-> <<rows, cols>>, at |-> [p \in Idx(rows, cols) |-> F(p[1], p[2])]]

\* numpy broadcasting of two 2-d shapes: each axis agrees or one side is 1.
Broadcastable(s1, s2) ==
    \A k \in 1..2 : s1[k] = s2[k] \/ s1[k] = 1 \/ s2[k] = 1

BroadcastShape(s1, s2) ==
    [k \in 1..2 |-> IF s1[k] = 1 THEN s2[k] ELSE s1[k]]

\* The element of array A that broadcasting puts at position p.
BAt(A, p) ==
    A.at[<<IF A.shape[1] = 1 THEN 0 ELSE p[1], IF A.shape[2] = 1 THEN 0 ELSE p[2]>>]

\* ---------------------------------------------- classification masks

DefaultCloudClasses == {2, 4, 5, 6, 7, 11}

DefaultUrbanClasses == {0, 5}

\* A cloud mask that is true where the code is NOT among the valid classes.
get_inverted_sen2cor_cloud_mask(cm_raster, valid_classes) ==
    [shape |-> cm_raster.shape,
     at |-> [p \in DOMAIN cm_raster.at |-> cm_raster.at[p] \notin valid_classes]]

get_valid_sen2cor_cloud_mask(cm_raster, valid_classes) ==
    [shape |-> cm_raster.shape,
     at |-> [p \in DOMAIN cm_raster.at |->
                \E code \in valid_classes : cm_raster.at[p] = code]]

get_valid_sigpac_urban_mask(lu_raster, valid_classes) ==
    [shape |-> lu_raster.shape,
     at |-> [p \in DOMAIN lu_raster.at |->
                \E code \in valid_classes : lu_raster.at[p] = code]]

\* astype(np.int) of a boolean array.
AsInt(mask) ==
    [shape |-> mask.shape, at |-> [p \in DOMAIN mask.at |-> IF mask.at[p] THEN 1 ELSE 0]]

\* Whether (cm_raster > 0) & (lu_raster > 0) can be formed and used as a
\* boolean index of the copy of lu_raster.
CanMerge(cm_raster, lu_raster) ==
    /\ Broadcastable(cm_raster.shape, lu_raster.shape)
    /\ BroadcastShape(cm_raster.shape, lu_raster.shape) = lu_raster.shape

\* rs_raster = copy(lu_raster); rs_raster[(cm_raster > 0) & (lu_raster > 0)] = 2,
\* for the integer masks cm_raster and lu_raster.
MergeValidPixels(cm_raster, lu_raster) ==
    [shape |-> lu_raster.shape,
     at |-> [p \in DOMAIN lu_raster.at |->
                IF BAt(cm_raster, p) > 0 /\ lu_raster.at[p] > 0
                THEN 2 ELSE lu_raster.at[p]]]

\* rs_raster[~(gm_raster == 1)] = 0, for gm_raster of the shape of rs_raster.
ApplyFootprintMask(rs_raster, gm_raster) ==
    [shape |-> rs_raster.shape,
     at |-> [p \in DOMAIN rs_raster.at |->
                IF gm_raster.at[p] = 1 THEN rs_raster.at[p] ELSE 0]]

\* np.count_nonzero(rs_raster == 2).
CountValidUrban(rs_raster) ==
    Cardinality({p \in DOMAIN rs_raster.at : rs_raster.at[p] = 2})

\* np.count_nonzero(rs_raster > 0).
CountUrban(rs_raster) ==
    Cardinality({p \in DOMAIN rs_raster.at : rs_raster.at[p] > 0})

\* (100.0 * valid) / urban as the exact fraction <<numerator, denominator>>;
\* defined for urban /= 0 only (Python raises ZeroDivisionError otherwise).
UrbanCover(count_of_valid_urban_pixels, count_of_urban_pixels) ==
    <<100 * count_of_valid_urban_pixels, count_of_urban_pixels>>

\* The fraction cover equals the number k.
CoverIs(cover, k) == cover[1] = k * cover[2]

\* ------------------------------------------------ the mosaic (inputs)

\* The one element of a singleton; an absent value (None) is the empty set.
The(S) == CHOOSE x \in S : TRUE

\* Sentinel-2 grid names of the mosaic and their column and row in it.
GridNames == {<<"3", "0", "T", "W", "M">>, <<"3", "0", "T", "X", "M">>,
              <<"3", "0", "T", "X", "N">>}

TilePos(grid_name) ==
    IF grid_name = <<"3", "0", "T", "W", "M">> THEN <<0, 0>>
    ELSE IF grid_name = <<"3", "0", "T", "X", "M">> THEN <<1, 0>>
    ELSE <<1, 1>>

\* The STAC item id of the product of a tile: platform, grid name, date.
ItemId(grid_name) == <<"S", "2", "A", "_">> \o grid_name \o <<"_", "1">>

ItemIds == {ItemId(g) : g \in GridNames}

\* Ground distance between the origins of adjacent tiles, and a tile's side.
TileStep(p) == (TilePixels - OverlapPixels) * p

TileSide(p) == TilePixels * p

\* <<x_min, y_min, x_max, y_max>> of a tile at pixel pitch p.
TileExtent(grid_name, p) ==
    LET x0 == TileStep(p) * (TilePos(grid_name)[1] + 1)
        y0 == TileStep(p) * (TilePos(grid_name)[2] + 1)
    IN  <<x0, y0, x0 + TileSide(p), y0 + TileSide(p)>>

\* The north-up SCL raster of a tile.
CmDataset(grid_name, p, codes) ==
    LET ext == TileExtent(grid_name, p)
    IN  [geo_transform |-> <<ext[1], p, 0, ext[4], 0, -p>>,
         RasterXSize |-> TilePixels, RasterYSize |-> TilePixels, codes |-> codes]

\* A north-up square land-use raster with lower-left corner (o, o).
LuDataset(o, size, p, codes) ==
    [geo_transform |-> <<o, p, 0, o + size * p, 0, -p>>,
     RasterXSize |-> size, RasterYSize |-> size, codes |-> codes]

\* The land-use rasters the deployment may point at: covering the mosaic,
\* covering only the ground common to all tiles, off the cloud-mask pixel grid
\* by one ground unit, sharing only a corner with the first tile, and lying
\* in the last tile only.
LuDatasets(p) ==
    LET s == TileStep(p)
        S == TileSide(p)
    IN  {LuDataset(o_n[1], o_n[2], p, codes) :
            o_n \in {<<s, (2 * s + S - s) \div p>>,
                     <<2 * s, OverlapPixels>>,
                     <<s - 1, TilePixels - 1>>,
                     <<s + S, TilePixels - OverlapPixels>>,
                     <<2 * s + S - p, 1>>},
            codes \in {"urban", "mixed"}}

\* The code of pixel (col, row) of a dataset's band.
CodeAt(dataset, col, row) ==
    CASE dataset.codes = "clear" -> 4
      [] dataset.codes = "cloudy" -> IF (col + row) % 2 = 0 THEN 4 ELSE 9
      [] dataset.codes = "urban" -> 0
      [] OTHER -> IF col % 2 = 0 THEN 5 ELSE 3

\* Footprints a product of a tile can have (already in the grid's CRS): the
\* whole tile, the half of it below a diagonal swath edge, and nothing.
Footprints(grid_name, p) ==
    LET ext == TileExtent(grid_name, p)
        rect == create_geometry_from_bbox(ext[1], ext[2], ext[3], ext[4])
    IN  {rect,
         {q \in rect : (q[1] - 2 * ext[1]) + (q[2] - 2 * ext[2]) <= 2 * TileSide(p)},
         NoGeometry}

\* Every order of the elements of a sequence.
Orders(names) ==
    {o \in [1 .. Len(names) -> {names[k] : k \in 1 .. Len(names)}] :
        \A k \in 1 .. Len(names) : \E j \in 1 .. Len(names) : o[j] = names[k]}

\* The orders in which S2L2A_TILES may list the grid names.
GridNameOrders ==
    {<<<<"3", "0", "T", "W", "M">>, <<"3", "0", "T", "X", "M">>, <<"3", "0", "T", "X", "N">>>>,
     <<<<"3", "0", "T", "X", "N">>, <<"3", "0", "T", "X", "M">>, <<"3", "0", "T", "W", "M">>>>,
     <<<<"3", "0", "T", "X", "M">>, <<"3", "0", "T", "X", "N">>, <<"3", "0", "T", "W", "M">>>>}

\* ------------------------------------------------------------- state

VARIABLES
    pitch,          \* pixel pitch of the mosaic's cloud-mask rasters
    grid_names,     \* os.environ['S2L2A_TILES'].split(',')
    lu_source,      \* the raster at LANDUSE_DATASET_S3_PATH
    store,          \* OUTPUT_S3_FOLDER: item name -> persisted aoi_extent
    pc,             \* where the running invocation of lambda_handler is
    event,          \* the SNS message (None: {})
    cm_dataset,     \* open cloud-mask handle (None: {})
    lu_dataset,     \* open land-use handle (None: {})
    cm_extent,
    lu_extent,
    aoi_geometry,
    idx,            \* position of the loop over grid_names
    fetched,        \* item names whose record s3.get_object returned
    subtracted,     \* item names whose extent was subtracted from the AOI
    aoi_extent,
    cm_window,
    lu_window,
    cm_raster,      \* (None: {})
    lu_raster,      \* (None: {})
    resolution,     \* <<resolution_x, resolution_y>>
    valid_classes,  \* class codes taken as valid cloud-mask codes
    gm_size,        \* <<gm_raster_size_x, gm_raster_size_y>>
    gm_raster,      \* (None: {})
    counted,        \* ground centers of the pixels counted as urban
    counts,         \* <<count_of_valid_urban_pixels, count_of_urban_pixels>>
    urban_cover,
    result,         \* <<statusCode, body>> once returned
    uploaded,       \* documents s3.upload_file was called with
    steps,          \* steps of the invocation that completed
    handles         \* open in-memory handles: gm_dataset, temp_store, temp_layer

vars == <<pitch, grid_names, lu_source, store, pc, event, cm_dataset, lu_dataset,
          cm_extent, lu_extent, aoi_geometry, idx, fetched, subtracted, aoi_extent,
          cm_window, lu_window, cm_raster, lu_raster, resolution, valid_classes,
          gm_size, gm_raster, counted, counts, urban_cover, result, uploaded, steps,
          handles>>

envVars == <<pitch, grid_names, lu_source>>

NoRecord == <<>>

\* The locals of lambda_handler before it runs.
LocalsCleared ==
    /\ cm_dataset = {} /\ lu_dataset = {}
    /\ cm_extent = <<>> /\ lu_extent = <<>>
    /\ aoi_geometry = NoGeometry /\ idx = 0
    /\ fetched = {} /\ subtracted = {}
    /\ aoi_extent = <<>> /\ cm_window = <<>> /\ lu_window = <<>>
    /\ cm_raster = {} /\ lu_raster = {} /\ resolution = <<>>
    /\ valid_classes = DefaultCloudClasses
    /\ gm_size = <<>> /\ gm_raster = {} /\ counted = {} /\ counts = <<>>
    /\ urban_cover = <<>> /\ result = <<>> /\ uploaded = <<>> /\ steps = {}
    /\ handles = {}

\* The locals of a new invocation.
ResetLocals ==
    /\ cm_dataset' = {} /\ lu_dataset' = {}
    /\ cm_extent' = <<>> /\ lu_extent' = <<>>
    /\ aoi_geometry' = NoGeometry /\ idx' = 0
    /\ fetched' = {} /\ subtracted' = {}
    /\ aoi_extent' = <<>> /\ cm_window' = <<>> /\ lu_window' = <<>>
    /\ cm_raster' = {} /\ lu_raster' = {} /\ resolution' = <<>>
    /\ valid_classes' = DefaultCloudClasses
    /\ gm_size' = <<>> /\ gm_raster' = {} /\ counted' = {} /\ counts' = <<>>
    /\ urban_cover' = <<>> /\ result' = <<>> /\ uploaded' = <<>> /\ steps' = {}
    /\ handles' = {}

Init ==
    /\ pitch \in 1 .. MaxPitch
    /\ grid_names \in GridNameOrders
    /\ lu_source \in LuDatasets(pitch)
    /\ store = [n \in ItemIds |-> NoRecord]
    /\ pc = "idle"
    /\ event = {}
    /\ LocalsCleared

item_id == The(event).id

geometry == The(event).geometry

\* item_id[0:4] + grid_name + item_id[9:]
ItemName(id, grid_name) ==
    SubSeq(id, 1, 4) \o grid_name \o SubSeq(id, 10, Len(id))

\* FileUtils.exist_s3_path on the item's path in the output folder.
exist_s3_path(s3, item_name) ==
    item_name \in DOMAIN s3 /\ s3[item_name] /= NoRecord

\* The loop's condition with the test of the current item left out.
NeedsFetchAnyItem(id, grid_name) ==
    exist_s3_path(store, ItemName(id, grid_name))

\* The condition under which the loop fetches the record of a grid name.
NeedsFetch(id, grid_name) ==
    /\ ItemName(id, grid_name) /= id
    /\ exist_s3_path(store, ItemName(id, grid_name))

cm_geometry ==
    create_geometry_from_bbox(cm_extent[1], cm_extent[2], cm_extent[3], cm_extent[4])

lu_geometry ==
    create_geometry_from_bbox(lu_extent[1], lu_extent[2], lu_extent[3], lu_extent[4])

\* A new SNS notification arrives: lambda_handler starts on it and reads the
\* environment and the message.
Invoke ==
    /\ pc \in {"idle", "returned", "failed"}
    /\ \E g \in GridNames, codes \in {"clear", "cloudy"} :
         \E fp \in Footprints(g, pitch) :
            event' = {[id |-> ItemId(g), geometry |-> fp,
                       scl |-> CmDataset(g, pitch, codes)]}
    /\ pc' = "open_cm"
    /\ ResetLocals
    /\ UNCHANGED <<envVars, store>>

\* gdal.Open of the SCL asset succeeds: envelope and geometry follow.
OpenCloudMask ==
    /\ pc = "open_cm"
    /\ cm_dataset' = {The(event).scl}
    /\ cm_extent' = get_envelope(The(event).scl)
    /\ steps' = steps \cup {"open_cm"}
    /\ pc' = "open_lu"
    /\ UNCHANGED <<envVars, handles, store, event, lu_dataset, lu_extent, aoi_geometry, idx,
                   fetched, subtracted, aoi_extent, cm_window, lu_window, cm_raster,
                   lu_raster, resolution, valid_classes, gm_size, gm_raster, counted,
                   counts, urban_cover, result, uploaded>>

\* gdal.Open of the SCL asset raises.
OpenCloudMaskFails ==
    /\ pc = "open_cm"
    /\ pc' = "failed"
    /\ UNCHANGED <<envVars, handles, store, event, cm_dataset, lu_dataset, cm_extent, lu_extent,
                   aoi_geometry, idx, fetched, subtracted, aoi_extent, cm_window,
                   lu_window, cm_raster, lu_raster, resolution, valid_classes, gm_size,
                   gm_raster, counted, counts, urban_cover, result, uploaded, steps>>

\* gdal.Open of the land-use dataset succeeds.
OpenLandUse ==
    /\ pc = "open_lu"
    /\ lu_dataset' = {lu_source}
    /\ lu_extent' = get_envelope(lu_source)
    /\ steps' = steps \cup {"open_lu"}
    /\ pc' = "opened"
    /\ UNCHANGED <<envVars, handles, store, event, cm_dataset, cm_extent, aoi_geometry, idx,
                   fetched, subtracted, aoi_extent, cm_window, lu_window, cm_raster,
                   lu_raster, resolution, valid_classes, gm_size, gm_raster, counted,
                   counts, urban_cover, result, uploaded>>

\* gdal.Open of the land-use dataset raises.
OpenLandUseFails ==
    /\ pc = "open_lu"
    /\ pc' = "failed"
    /\ UNCHANGED <<envVars, handles, store, event, cm_dataset, lu_dataset, cm_extent, lu_extent,
                   aoi_geometry, idx, fetched, subtracted, aoi_extent, cm_window,
                   lu_window, cm_raster, lu_raster, resolution, valid_classes, gm_size,
                   gm_raster, counted, counts, urban_cover, result, uploaded, steps>>

\* The test that lets the handler go on with an always-true one.
InputsIntersectAlways == TRUE

\* lu_geometry.Intersects(cm_geometry)
InputsIntersect == Intersects(lu_geometry, cm_geometry)

\* The input layers do not intersect: return without processing anything.
ReturnNoIntersection ==
    /\ pc = "opened"
    /\ ~InputsIntersect
    /\ result' = <<200, "Input data do not intersect">>
    /\ pc' = "returned"
    /\ UNCHANGED <<envVars, handles, store, event, cm_dataset, lu_dataset, cm_extent, lu_extent,
                   aoi_geometry, idx, fetched, subtracted, aoi_extent, cm_window,
                   lu_window, cm_raster, lu_raster, resolution, valid_classes, gm_size,
                   gm_raster, counted, counts, urban_cover, uploaded, steps>>

\* The candidate AOI, and the loop over grid_names starts.
StartReconciliation ==
    /\ pc = "opened"
    /\ InputsIntersect
    /\ aoi_geometry' = Intersection(cm_geometry, lu_geometry)
    /\ idx' = 1
    /\ pc' = "reconcile"
    /\ UNCHANGED <<envVars, handles, store, event, cm_dataset, lu_dataset, cm_extent, lu_extent,
                   fetched, subtracted, aoi_extent, cm_window, lu_window, cm_raster,
                   lu_raster, resolution, valid_classes, gm_size, gm_raster, counted,
                   counts, urban_cover, result, uploaded, steps>>

\* One pass of the loop for a grid name that is the current item or has no
\* persisted record.
ReconcileSkip ==
    /\ pc = "reconcile"
    /\ idx <= Len(grid_names)
    /\ ~NeedsFetch(item_id, grid_names[idx])
    /\ idx' = idx + 1
    /\ UNCHANGED <<envVars, handles, store, pc, event, cm_dataset, lu_dataset, cm_extent,
                   lu_extent, aoi_geometry, fetched, subtracted, aoi_extent, cm_window,
                   lu_window, cm_raster, lu_raster, resolution, valid_classes, gm_size,
                   gm_raster, counted, counts, urban_cover, result, uploaded, steps>>

\* One pass of the loop for a neighbor with a persisted record: fetch it,
\* parse it, subtract its aoi_extent when it intersects the AOI.
ReconcileNeighbor ==
    /\ pc = "reconcile"
    /\ idx <= Len(grid_names)
    /\ NeedsFetch(item_id, grid_names[idx])
    /\ LET item_name == ItemName(item_id, grid_names[idx])
           temp_env == store[item_name]
           geom_obj == create_geometry_from_bbox(temp_env[1], temp_env[2],
                                                 temp_env[3], temp_env[4])
       IN  /\ fetched' = fetched \cup {item_name}
           /\ IF Intersects(aoi_geometry, geom_obj)
              THEN /\ aoi_geometry' = Difference(aoi_geometry, geom_obj)
                   /\ subtracted' = subtracted \cup {item_name}
              ELSE UNCHANGED <<aoi_geometry, subtracted>>
    /\ idx' = idx + 1
    /\ UNCHANGED <<envVars, handles, store, pc, event, cm_dataset, lu_dataset, cm_extent,
                   lu_extent, aoi_extent, cm_window, lu_window, cm_raster, lu_raster,
                   resolution, valid_classes, gm_size, gm_raster, counted, counts,
                   urban_cover, result, uploaded, steps>>

\* A fetch failure that is swallowed: the loop goes on to the next name.
ReconcileFetchSkipped ==
    /\ pc = "reconcile"
    /\ idx <= Len(grid_names)
    /\ NeedsFetch(item_id, grid_names[idx])
    /\ idx' = idx + 1
    /\ UNCHANGED <<envVars, handles, store, pc, event, cm_dataset, lu_dataset, cm_extent,
                   lu_extent, aoi_geometry, fetched, subtracted, aoi_extent, cm_window,
                   lu_window, cm_raster, lu_raster, resolution, valid_classes, gm_size,
                   gm_raster, counted, counts, urban_cover, result, uploaded, steps>>

\* s3.list_objects_v2 raises in exist_s3_path for the loop's grid name.
ReconcileListFails ==
    /\ pc = "reconcile"
    /\ idx <= Len(grid_names)
    /\ pc' = "failed"
    /\ UNCHANGED <<envVars, handles, store, event, cm_dataset, lu_dataset, cm_extent, lu_extent,
                   aoi_geometry, idx, fetched, subtracted, aoi_extent, cm_window,
                   lu_window, cm_raster, lu_raster, resolution, valid_classes, gm_size,
                   gm_raster, counted, counts, urban_cover, result, uploaded, steps>>

\* s3.get_object or json.loads raises for a neighbor's record: the exception
\* leaves the handler.
ReconcileFetchFails ==
    /\ pc = "reconcile"
    /\ idx <= Len(grid_names)
    /\ NeedsFetch(item_id, grid_names[idx])
    /\ pc' = "failed"
    /\ UNCHANGED <<envVars, handles, store, event, cm_dataset, lu_dataset, cm_extent, lu_extent,
                   aoi_geometry, idx, fetched, subtracted, aoi_extent, cm_window,
                   lu_window, cm_raster, lu_raster, resolution, valid_classes, gm_size,
                   gm_raster, counted, counts, urban_cover, result, uploaded, steps>>

\* The envelope of the residual AOI clamped to the land-use envelope:
\* <<aoi_x_min, aoi_y_min, aoi_x_max, aoi_y_max>>.
ClampedExtent(aoi, lu_ext) ==
    LET temp == GetEnvelope(aoi)
    IN  <<Max2(temp[1], lu_ext[1]), Max2(temp[3], lu_ext[2]),
          Min2(temp[2], lu_ext[3]), Min2(temp[4], lu_ext[4])>>

\* band.ReadAsArray(xoff=left, yoff=top, win_xsize=right-left, win_ysize=bottom-top)
ReadAsArray(dataset, win) ==
    Array(win[4] - win[2], win[3] - win[1],
          LAMBDA r, c : CodeAt(dataset, win[1] + c, win[2] + r))

\* The windows ReadAsArray can return an array for: sizes are not negative,
\* and a window that holds pixels lies inside the raster.
CanRead(dataset, win) ==
    /\ win[3] - win[1] >= 0
    /\ win[4] - win[2] >= 0
    /\ \/ win[3] - win[1] = 0
       \/ win[4] - win[2] = 0
       \/ /\ 0 <= win[1] /\ win[3] <= dataset.RasterXSize
          /\ 0 <= win[2] /\ win[4] <= dataset.RasterYSize

\* round(extent / raster size, 5) per axis; the pitches of the model's
\* rasters are integers, so the quotient is exact.
Resolution(extent, dataset) ==
    <<(extent[3] - extent[1]) \div dataset.RasterXSize,
      (extent[4] - extent[2]) \div dataset.RasterYSize>>

\* The loop is over: clamp the AOI, read both windows, release the datasets.
ReadWindows ==
    /\ pc = "reconcile"
    /\ idx > Len(grid_names)
    /\ LET extent == ClampedExtent(aoi_geometry, lu_extent)
           cm_win == get_reading_window(The(cm_dataset), extent)
           lu_win == get_reading_window(The(lu_dataset), extent)
       IN  /\ CanRead(The(cm_dataset), cm_win)
           /\ CanRead(The(lu_dataset), lu_win)
           /\ aoi_extent' = extent
           /\ cm_window' = cm_win
           /\ lu_window' = lu_win
           /\ cm_raster' = {ReadAsArray(The(cm_dataset), cm_win)}
           /\ lu_raster' = {ReadAsArray(The(lu_dataset), lu_win)}
    /\ resolution' = Resolution(cm_extent, The(cm_dataset))
    /\ cm_dataset' = {}
    /\ lu_dataset' = {}
    /\ steps' = steps \cup {"reconciled", "read"}
    /\ pc' = "merge"
    /\ UNCHANGED <<envVars, handles, store, event, cm_extent, lu_extent, aoi_geometry, idx,
                   fetched, subtracted, valid_classes, gm_size, gm_raster, counted,
                   counts, urban_cover, result, uploaded>>

\* One of the two ReadAsArray calls raises: the window is not readable, or
\* the remote read fails.
ReadWindowsFails ==
    /\ pc = "reconcile"
    /\ idx > Len(grid_names)
    /\ LET extent == ClampedExtent(aoi_geometry, lu_extent)
           cm_win == get_reading_window(The(cm_dataset), extent)
           lu_win == get_reading_window(The(lu_dataset), extent)
       IN  /\ aoi_extent' = extent
           /\ cm_window' = cm_win
           /\ \E failing \in {"cm", "lu"} :
                /\ failing = "lu" => CanRead(The(cm_dataset), cm_win)
                /\ lu_window' = IF failing = "lu" THEN lu_win ELSE <<>>
    /\ steps' = steps \cup {"reconciled"}
    /\ pc' = "failed"
    /\ UNCHANGED <<envVars, handles, store, event, cm_dataset, lu_dataset, cm_extent, lu_extent,
                   aoi_geometry, idx, fetched, subtracted, cm_raster, lu_raster,
                   resolution, valid_classes, gm_size, gm_raster, counted, counts,
                   urban_cover, result, uploaded>>

\* <<gm_raster_size_x, gm_raster_size_y>>: int(extent / resolution) per axis.
GmRasterSize(extent, res) ==
    <<TruncDiv(extent[3] - extent[1], res[1]), TruncDiv(extent[4] - extent[2], res[2])>>

\* The MEM raster with geotransform [x_min, resolution_x, 0, y_max, 0,
\* -resolution_y] after rasterize_geometries burnt the footprint with value
\* 1: a pixel is burnt when its center is in the geometry.
rasterize_geometries(size, extent, res, footprint) ==
    Array(size[2], size[1],
          LAMBDA r, c :
              IF <<2 * extent[1] + (2 * c + 1) * res[1],
                   2 * extent[4] - (2 * r + 1) * res[2]>> \in footprint
              THEN 1 ELSE 0)

\* Merge of the two class masks (lines 197-203).
MergedRaster(cm, lu, classes) ==
    MergeValidPixels(AsInt(get_valid_sen2cor_cloud_mask(cm, classes)),
                     AsInt(get_valid_sigpac_urban_mask(lu, DefaultUrbanClasses)))

\* Ground center, on the half-unit lattice, of pixel (col, row) of a dataset.
PixelCenter(dataset, col, row) ==
    <<2 * GT(dataset, 0) + GT(dataset, 1) * (2 * col + 1),
      2 * GT(dataset, 3) + GT(dataset, 5) * (2 * row + 1)>>

\* Merge, footprint mask, counts and cover: everything succeeded.
ComputeStatistics ==
    /\ pc = "merge"
    /\ CanMerge(The(cm_raster), The(lu_raster))
    /\ LET size == GmRasterSize(aoi_extent, resolution)
           gm == rasterize_geometries(size, aoi_extent, resolution, geometry)
           merged == MergedRaster(The(cm_raster), The(lu_raster), valid_classes)
       IN  /\ size[1] >= 1 /\ size[2] >= 1
           /\ gm.shape = merged.shape
           /\ LET rs_raster == ApplyFootprintMask(merged, gm)
              IN  /\ CountUrban(rs_raster) /= 0
                  /\ gm_size' = size
                  /\ gm_raster' = {gm}
                  /\ counts' = <<CountValidUrban(rs_raster), CountUrban(rs_raster)>>
                  /\ urban_cover' = UrbanCover(CountValidUrban(rs_raster),
                                               CountUrban(rs_raster))
                  /\ counted' = {PixelCenter(lu_source, lu_window[1] + q[2],
                                             lu_window[2] + q[1]) :
                                    q \in {x \in DOMAIN rs_raster.at : rs_raster.at[x] > 0}}
    /\ cm_raster' = {}
    /\ lu_raster' = {}
    /\ steps' = steps \cup {"stats"}
    /\ pc' = "save"
    /\ UNCHANGED <<envVars, handles, store, event, cm_dataset, lu_dataset, cm_extent, lu_extent,
                   aoi_geometry, idx, fetched, subtracted, aoi_extent, cm_window,
                   lu_window, resolution, valid_classes, result, uploaded>>

\* The same lines when one of them raises: the masks cannot be merged, the
\* MEM raster cannot be created with a size below 1, the footprint mask has
\* not the shape of the merged raster, or the division is by zero.
ComputeStatisticsRaises ==
    /\ pc = "merge"
    /\ IF ~CanMerge(The(cm_raster), The(lu_raster))
       THEN UNCHANGED <<gm_size, gm_raster, counts, counted>>
       ELSE LET size == GmRasterSize(aoi_extent, resolution)
                gm == rasterize_geometries(size, aoi_extent, resolution, geometry)
                merged == MergedRaster(The(cm_raster), The(lu_raster), valid_classes)
            IN  /\ gm_size' = size
                /\ IF size[1] < 1 \/ size[2] < 1
                   THEN UNCHANGED <<gm_raster, counts, counted>>
                   ELSE /\ gm_raster' = {gm}
                        /\ IF gm.shape /= merged.shape
                           THEN UNCHANGED <<counts, counted>>
                           ELSE LET rs_raster == ApplyFootprintMask(merged, gm)
                                IN  /\ CountUrban(rs_raster) = 0
                                    /\ counts' = <<CountValidUrban(rs_raster),
                                                   CountUrban(rs_raster)>>
                                    /\ counted' = {}
    /\ pc' = "failed"
    /\ UNCHANGED <<envVars, handles, store, event, cm_dataset, lu_dataset, cm_extent, lu_extent,
                   aoi_geometry, idx, fetched, subtracted, aoi_extent, cm_window,
                   lu_window, cm_raster, lu_raster, resolution, valid_classes,
                   urban_cover, result, uploaded, steps>>

\* The footprint raster was created and a later call of lines 225-227 raises
\* (gdal.UseExceptions is on): gdal.RasterizeLayer inside
\* rasterize_geometries, before the temporary store and layer are released
\* at its end, or gm_band.ReadAsArray, before gm_dataset is released.
RasterizeFails ==
    /\ pc = "merge"
    /\ CanMerge(The(cm_raster), The(lu_raster))
    /\ LET size == GmRasterSize(aoi_extent, resolution)
       IN  /\ size[1] >= 1 /\ size[2] >= 1
           /\ gm_size' = size
    /\ \E raising \in {"RasterizeLayer", "ReadAsArray"} :
         handles' = IF raising = "RasterizeLayer"
                    THEN {"gm_dataset", "temp_store", "temp_layer"}
                    ELSE {"gm_dataset"}
    /\ pc' = "failed"
    /\ UNCHANGED <<envVars, store, event, cm_dataset, lu_dataset, cm_extent, lu_extent,
                   aoi_geometry, idx, fetched, subtracted, aoi_extent, cm_window,
                   lu_window, cm_raster, lu_raster, resolution, valid_classes,
                   gm_raster, counted, counts, urban_cover, result, uploaded, steps>>

\* message_obj['land_use'] as the handler builds it.
LandUse ==
    [urban_pixels |-> counts[2], valid_urban_pixels |-> counts[1],
     urban_cover |-> urban_cover, aoi_extent |-> cm_extent]

\* The document is written, uploaded to the output folder, and the handler
\* returns OK.
UploadResult ==
    /\ pc = "save"
    /\ uploaded' = Append(uploaded, [id |-> item_id, land_use |-> LandUse])
    /\ store' = [store EXCEPT ![item_id] = LandUse.aoi_extent]
    /\ result' = <<200, "OK">>
    /\ pc' = "returned"
    /\ UNCHANGED <<envVars, handles, event, cm_dataset, lu_dataset, cm_extent, lu_extent,
                   aoi_geometry, idx, fetched, subtracted, aoi_extent, cm_window,
                   lu_window, cm_raster, lu_raster, resolution, valid_classes, gm_size,
                   gm_raster, counted, counts, urban_cover, steps>>

\* Writing the temporary file or s3.upload_file raises.
UploadResultFails ==
    /\ pc = "save"
    /\ pc' = "failed"
    /\ UNCHANGED <<envVars, handles, store, event, cm_dataset, lu_dataset, cm_extent, lu_extent,
                   aoi_geometry, idx, fetched, subtracted, aoi_extent, cm_window,
                   lu_window, cm_raster, lu_raster, resolution, valid_classes, gm_size,
                   gm_raster, counted, counts, urban_cover, result, uploaded, steps>>

Next ==
    \/ Invoke
    \/ OpenCloudMask
    \/ OpenCloudMaskFails
    \/ OpenLandUse
    \/ OpenLandUseFails
    \/ ReturnNoIntersection
    \/ StartReconciliation
    \/ ReconcileSkip
    \/ ReconcileNeighbor
    \/ ReconcileListFails
    \/ ReconcileFetchFails
    \/ ReadWindows
    \/ ReadWindowsFails
    \/ ComputeStatistics
    \/ ComputeStatisticsRaises
    \/ RasterizeFails
    \/ UploadResult
    \/ UploadResultFails

Spec == Init /\ [][Next]_vars

\* ------------------------------------- the window of a full envelope

\* Unrotated datasets of every origin, pitch sign (rows) and size in bounds.
WinDatasets ==
    {[geo_transform |-> <<c, a, 0, f, 0, e>>, RasterXSize |-> w, RasterYSize |-> h,
      codes |-> "clear"] :
        c \in {-1, 0, 2}, f \in {-2, 0, 1}, a \in 1 .. MaxPitch,
        e \in (-MaxPitch .. -1) \cup (1 .. MaxPitch),
        w \in 1 .. MaxRasterSize, h \in 1 .. MaxRasterSize}

InitWin ==
    /\ pitch = 1
    /\ grid_names = <<>>
    /\ lu_source \in WinDatasets
    /\ store = [n \in ItemIds |-> NoRecord]
    /\ pc = "window"
    /\ event = {}
    /\ LocalsCleared

\* get_reading_window(dataset, get_envelope(dataset)) for the chosen dataset.
ReadingWindowOfEnvelope ==
    /\ pc = "window"
    /\ lu_extent' = get_envelope(lu_source)
    /\ lu_window' = get_reading_window(lu_source, get_envelope(lu_source))
    /\ pc' = "windowed"
    /\ UNCHANGED <<envVars, handles, store, event, cm_dataset, lu_dataset, cm_extent,
                   aoi_geometry, idx, fetched, subtracted, aoi_extent, cm_window,
                   cm_raster, lu_raster, resolution, valid_classes, gm_size, gm_raster,
                   counted, counts, urban_cover, result, uploaded, steps>>

NextWin == ReadingWindowOfEnvelope

SpecWin == InitWin /\ [][NextWin]_vars

\* C6: for every unrotated dataset with positive column pitch and positive or
\* negative row pitch, the reading window of the dataset's own envelope is
\* exactly (0, 0, width, height).
C6_FullEnvelopeWindow ==
    pc = "windowed" =>
        lu_window = <<0, 0, lu_source.RasterXSize, lu_source.RasterYSize>>

\* A south-up dataset (positive row pitch), not square, origin off zero, has
\* had its window computed.
C6_Witness ==
    /\ pc = "windowed"
    /\ GT(lu_source, 5) > 0
    /\ GT(lu_source, 3) /= 0
    /\ lu_source.RasterXSize /= lu_source.RasterYSize
    /\ lu_extent[2] = GT(lu_source, 3)

\* --------------------------------------------- combine and count alone

\* The array with the given rows.
ArrayOfRows(rows) ==
    Array(Len(rows), Len(rows[1]), LAMBDA r, c : rows[r + 1][c + 1])

\* Cloud-mask windows of four rows, each row one of three patterns.
StatsCloudWindows ==
    {ArrayOfRows(rows) :
        rows \in [1 .. 4 -> {<<4, 4, 1, 1>>, <<2, 2, 2, 2>>, <<9, 4, 9, 4>>}]}

\* Land-use windows of one code everywhere.
StatsLandUseWindows ==
    {Array(4, 4, LAMBDA r, c : code) : code \in {0, 3, 5}}

\* Footprint masks: the whole grid, its left two columns, nothing.
StatsFootprintMasks ==
    {Array(4, 4, LAMBDA r, c : IF c < cols THEN 1 ELSE 0) : cols \in {0, 2, 4}}

InitStats ==
    /\ pitch = 1
    /\ grid_names = <<>>
    /\ lu_source = LuDataset(0, 4, 1, "urban")
    /\ store = [n \in ItemIds |-> NoRecord]
    /\ pc = "merge"
    /\ event = {}
    /\ cm_dataset = {} /\ lu_dataset = {}
    /\ cm_extent = <<>> /\ lu_extent = <<>>
    /\ aoi_geometry = NoGeometry /\ idx = 0
    /\ fetched = {} /\ subtracted = {}
    /\ aoi_extent = <<>> /\ cm_window = <<>> /\ lu_window = <<>>
    /\ cm_raster \in {{a} : a \in StatsCloudWindows}
    /\ lu_raster \in {{a} : a \in StatsLandUseWindows}
    /\ resolution = <<>>
    /\ valid_classes \in {{2, 4}, DefaultCloudClasses}
    /\ gm_size = <<>>
    /\ gm_raster \in {{a} : a \in StatsFootprintMasks}
    /\ counted = {} /\ counts = <<>>
    /\ urban_cover = <<>> /\ result = <<>> /\ uploaded = <<>> /\ steps = {}
    /\ handles = {}

\* Lines 196-240 on given windows and a given footprint mask.
CombineAndCount ==
    /\ pc = "merge"
    /\ LET rs_raster == ApplyFootprintMask(
                            MergedRaster(The(cm_raster), The(lu_raster), valid_classes),
                            The(gm_raster))
       IN  /\ CountUrban(rs_raster) /= 0
           /\ counts' = <<CountValidUrban(rs_raster), CountUrban(rs_raster)>>
           /\ urban_cover' = UrbanCover(CountValidUrban(rs_raster), CountUrban(rs_raster))
    /\ pc' = "save"
    /\ UNCHANGED <<envVars, handles, store, event, cm_dataset, lu_dataset, cm_extent, lu_extent,
                   aoi_geometry, idx, fetched, subtracted, aoi_extent, cm_window,
                   lu_window, cm_raster, lu_raster, resolution, valid_classes, gm_size,
                   gm_raster, counted, result, uploaded, steps>>

\* The same lines when no pixel is counted: the division raises.
CombineAndCountRaises ==
    /\ pc = "merge"
    /\ LET rs_raster == ApplyFootprintMask(
                            MergedRaster(The(cm_raster), The(lu_raster), valid_classes),
                            The(gm_raster))
       IN  /\ CountUrban(rs_raster) = 0
           /\ counts' = <<CountValidUrban(rs_raster), CountUrban(rs_raster)>>
    /\ pc' = "failed"
    /\ UNCHANGED <<envVars, handles, store, event, cm_dataset, lu_dataset, cm_extent, lu_extent,
                   aoi_geometry, idx, fetched, subtracted, aoi_extent, cm_window,
                   lu_window, cm_raster, lu_raster, resolution, valid_classes, gm_size,
                   gm_raster, counted, urban_cover, result, uploaded, steps>>

NextStats == CombineAndCount \/ CombineAndCountRaises

SpecStats == InitStats /\ [][NextStats]_vars

\* The inputs of the end-to-end example: the 4x4 cloud-mask window, valid
\* cloud codes {2, 4}, land use 0 everywhere, footprint over the whole grid.
C7_ExampleInputs ==
    /\ cm_raster = {ArrayOfRows(<<<<4, 4, 1, 1>>, <<4, 4, 1, 1>>,
                                 <<2, 2, 2, 2>>, <<2, 2, 2, 2>>>>)}
    /\ valid_classes = {2, 4}
    /\ lu_raster = {Array(4, 4, LAMBDA r, c : 0)}
    /\ gm_raster = {Array(4, 4, LAMBDA r, c : 1)}

\* C7 as stated: on the example the step counts 16 urban pixels, 16 valid
\* urban pixels and a cover of 100.0.
C7_ExampleAsStated ==
    (C7_ExampleInputs /\ pc /= "merge") =>
        /\ pc = "save"
        /\ counts = <<16, 16>>
        /\ CoverIs(urban_cover, 100)

\* C7 amended: on the example the step counts 16 urban pixels, of which the
\* 12 with a cloud code in {2, 4} are valid (the four pixels of code 1 are
\* not), and the cover is 75.0.
C7_ExampleAmended ==
    (C7_ExampleInputs /\ pc /= "merge") =>
        /\ pc = "save"
        /\ counts = <<12, 16>>
        /\ CoverIs(urban_cover, 75)

\* The step has run on the example inputs.
C7_Witness == C7_ExampleInputs /\ pc = "save" /\ counts /= <<>>

\* ------------------------------------------------ claims on the handler

\* The point q of the half-unit lattice lies strictly inside the rectangle
\* <<x_min, y_min, x_max, y_max>>.
StrictlyInside(q, env) ==
    /\ 2 * env[1] < q[1] /\ q[1] < 2 * env[3]
    /\ 2 * env[2] < q[2] /\ q[2] < 2 * env[4]

\* C1: when the invocation found the persisted record of a neighbor, no pixel
\* whose ground center lies inside that neighbor's persisted aoi_extent is
\* counted in urban_pixels (nor, being a subset, in valid_urban_pixels).
C1_NoNeighborGroundCounted ==
    \A n \in fetched : \A q \in counted : ~StrictlyInside(q, store[n])

\* C2: when the count of footprint pixels is zero the handler does not raise:
\* it goes on to report urban_pixels = 0 with a defined urban_cover.
C2_ZeroCountCompletes ==
    (counts /= <<>> /\ counts[2] = 0) =>
        /\ pc \in {"save", "returned"}
        /\ urban_cover /= <<>>

\* C3: the record of the current item is never fetched and never subtracted,
\* also when it exists; without a record of another item the AOI stays the
\* candidate AOI through the whole loop.
C3_SelfTileExcluded ==
    event /= {} =>
        /\ item_id \notin fetched
        /\ item_id \notin subtracted
        /\ (idx >= 1 /\ \A n \in ItemIds \ {item_id} : store[n] = NoRecord)
              => aoi_geometry = Intersection(cm_geometry, lu_geometry)

\* The loop has passed every grid name while a record of the current item
\* was in the output store.
C3_Witness ==
    /\ pc = "merge"
    /\ store[item_id] /= NoRecord
    /\ \E k \in 1 .. Len(grid_names) : ItemName(item_id, grid_names[k]) = item_id

\* C4: when the envelopes of the two datasets do not intersect, the handler
\* can only return status 200 with the message 'Input data do not intersect':
\* the loop never starts, no window is computed or read, nothing is uploaded.
C4_NoOverlapShortCircuit ==
    (lu_extent /= <<>> /\ cm_extent /= <<>> /\ ~Intersects(lu_geometry, cm_geometry)) =>
        /\ pc \in {"opened", "returned"}
        /\ pc = "returned" => result = <<200, "Input data do not intersect">>
        /\ idx = 0 /\ fetched = {} /\ subtracted = {}
        /\ aoi_extent = <<>> /\ cm_window = <<>> /\ lu_window = <<>>
        /\ cm_raster = {} /\ lu_raster = {}
        /\ uploaded = <<>>
        /\ steps \subseteq {"open_cm", "open_lu"}

\* The handler returned on the no-intersection path while a record of
\* another item was in the store.
C4_Witness ==
    /\ pc = "returned"
    /\ result = <<200, "Input data do not intersect">>
    /\ \E n \in ItemIds \ {item_id} : store[n] /= NoRecord

\* The loop of lines 150-163 as a function of the order of the grid names.
RECURSIVE ReconcileLoop(_, _, _)
ReconcileLoop(aoi, names, id) ==
    IF names = <<>> THEN aoi
    ELSE LET item_name == ItemName(id, Head(names))
             temp_env == store[item_name]
             geom_obj == create_geometry_from_bbox(temp_env[1], temp_env[2],
                                                   temp_env[3], temp_env[4])
         IN  IF NeedsFetch(id, Head(names)) /\ Intersects(aoi, geom_obj)
             THEN ReconcileLoop(Difference(aoi, geom_obj), Tail(names), id)
             ELSE ReconcileLoop(aoi, Tail(names), id)

\* C5: the residual AOI the loop ends with covers the same ground as the one
\* it would end with under any other order of the grid names.
C5_OrderIndependent ==
    (pc \in {"merge", "save"} \/ (pc = "reconcile" /\ idx > Len(grid_names))) =>
        \A o \in Orders(grid_names) :
            aoi_geometry =
                ReconcileLoop(Intersection(cm_geometry, lu_geometry), o, item_id)

\* The loop subtracted two neighbors, neither of which covers what the other
\* took, and left ground.
C5_Witness ==
    /\ pc = "merge"
    /\ Cardinality(subtracted) = 2
    /\ aoi_geometry /= NoGeometry
    /\ \A n \in subtracted :
          LET e == store[n]
          IN  Difference(Intersection(cm_geometry, lu_geometry),
                         create_geometry_from_bbox(e[1], e[2], e[3], e[4]))
                 /= aoi_geometry

\* Item names, other than the current item's, that the configured grid
\* names derive and that have a persisted record.
ExistingNeighborRecords ==
    {n \in {ItemName(item_id, grid_names[k]) : k \in 1 .. Len(grid_names)} :
        n /= item_id /\ n \in DOMAIN store /\ store[n] /= NoRecord}

\* C8: the document is uploaded at most once, only by an invocation that
\* opened both rasters, fetched the record of every existing neighbor, read
\* both windows and computed the statistics, and it carries the counts, the
\* cover and the aoi_extent that invocation computed; an invocation in which
\* a step failed uploads nothing.
C8_UploadOnlyWhenComplete ==
    /\ Len(uploaded) <= 1
    /\ pc = "failed" => uploaded = <<>>
    /\ uploaded /= <<>> =>
          /\ pc = "returned"
          /\ result = <<200, "OK">>
          /\ {"open_cm", "open_lu", "reconciled", "read", "stats"} \subseteq steps
          /\ fetched = ExistingNeighborRecords
          /\ counts /= <<>> /\ urban_cover /= <<>>
          /\ uploaded[1] =
                [id |-> item_id,
                 land_use |-> [urban_pixels |-> counts[2],
                               valid_urban_pixels |-> counts[1],
                               urban_cover |-> <<100 * counts[1], counts[2]>>,
                               aoi_extent |-> cm_extent]]
          /\ store[item_id] = uploaded[1].land_use.aoi_extent

\* An invocation that had neighbor records to fetch uploaded its document.
C8_Witness ==
    /\ pc = "returned"
    /\ Len(uploaded) = 1
    /\ Cardinality(fetched) = 2

\* The window lies in the grid of a raster of the given size.
WindowInGrid(win, dataset) ==
    /\ 0 <= win[1] /\ win[1] <= win[3] /\ win[3] <= dataset.RasterXSize
    /\ 0 <= win[2] /\ win[2] <= win[4] /\ win[4] <= dataset.RasterYSize

\* C9: for every residual AOI, the empty one included, the windows computed
\* for the cloud-mask and for the land-use dataset lie in the grid of their
\* own dataset.
C9_WindowsInGrid ==
    /\ cm_window /= <<>> => WindowInGrid(cm_window, The(event).scl)
    /\ lu_window /= <<>> => WindowInGrid(lu_window, lu_source)

\* C10: the footprint scratch grid has the width and height of the
\* cloud-mask read window, for every clamped AOI extent.
C10_ScratchGridShape ==
    gm_size /= <<>> =>
        gm_size = <<cm_window[3] - cm_window[1], cm_window[4] - cm_window[2]>>

\* C11: on every exit path of lambda_handler (normal completion, the
\* no-intersection early return, a failure raised after a handle was opened)
\* every handle acquired in the invocation has been released: the cloud-mask
\* dataset, the land-use dataset, the in-memory footprint raster and the
\* temporary vector store and layer; none is still open when the handler
\* exits.
C11_HandlesReleasedOnExit ==
    pc \in {"returned", "failed"} =>
        /\ cm_dataset = {}
        /\ lu_dataset = {}
        /\ handles = {}

=============================================================================
